---------------------------- MODULE Spec2Model ----------------------------
(***************************************************************************)
(* Model of the currency-data-pages scripts:                               *)
(*   scripts/update_currency_data.py   ("ucd", rows under                  *)
(*                                      rates_by_year[year][MM-DD])        *)
(*   scripts/update_and_deploy.py      ("uad", rows under                  *)
(*                                      data[year][YYYY-MM-DD])            *)
(*   scripts/bootstrap-currency-pages.py ("bootstrap")                     *)
(* The three scripts are run one at a time against one docs directory      *)
(* holding currency_rates.json, latest.json and metadata.json.             *)
(*                                                                         *)
(* Python values are represented as follows.  A str that the code slices   *)
(* or orders (dates, years, day-keys) is a sequence of one-character       *)
(* strings; a currency code and a rate are opaque strings; None is the     *)
(* string "None"; a dict is a function whose DOMAIN is its key set; a      *)
(* list is a sequence.  A file on disk is [kind |-> "absent"],             *)
(* [kind |-> "partial"] (opened for writing and not completely written)    *)
(* or [kind |-> "json", val |-> v].                                        *)
(***************************************************************************)
EXTENDS Integers, Sequences, FiniteSets, TLC

\* ------------------------------------------------------------------ bounds

\* The wall clock runs over days 0..MaxDay counted from 2024-12-31.
MaxDay == 1

\* At most MaxRuns scripts are started.
MaxRuns == 2

\* ------------------------------------------------------- python primitives

None == "None"

EmptyDict == <<>>

\* d[key] = value on a dict
DictSet(d, key, value) ==
    [k \in DOMAIN d \cup {key} |-> IF k = key THEN value ELSE d[k]]

\* d.update(u)
DictUpdate(d, u) ==
    [k \in DOMAIN d \cup DOMAIN u |-> IF k \in DOMAIN u THEN u[k] ELSE d[k]]

\* d.get(key, default)
DictGet(d, key, default) == IF key \in DOMAIN d THEN d[key] ELSE default

DigitChars == <<"0", "1", "2", "3", "4", "5", "6", "7", "8", "9">>

Digit(n) == DigitChars[n + 1]

\* str(n) of a non-negative integer
RECURSIVE IntToStr(_)
IntToStr(n) == IF n < 10 THEN <<Digit(n)>>
               ELSE Append(IntToStr(n \div 10), Digit(n % 10))

\* the %m and %d fields of strftime: two digits, zero padded
Pad2(n) == <<Digit(n \div 10), Digit(n % 10)>>

\* the %Y field of strftime: four digits, zero padded
Pad4(n) == <<Digit(n \div 1000), Digit((n \div 100) % 10),
             Digit((n \div 10) % 10), Digit(n % 10)>>

\* ord(c) for the characters of a date string
Ord(c) == IF c = "-" THEN 45
          ELSE 48 + (CHOOSE i \in 0..9 : Digit(i) = c)

\* a < b on python str: code point order, a proper prefix is smaller
RECURSIVE StrLess(_, _)
StrLess(a, b) ==
    IF b = <<>> THEN FALSE
    ELSE IF a = <<>> THEN TRUE
    ELSE IF Ord(Head(a)) # Ord(Head(b)) THEN Ord(Head(a)) < Ord(Head(b))
    ELSE StrLess(Tail(a), Tail(b))

\* max(keys) of a non-empty collection of str
PyMax(S) == CHOOSE x \in S : \A y \in S : ~StrLess(x, y)

\* s[5:] on a str
SliceFrom5(s) == SubSeq(s, 6, Len(s))

\* ---------------------------------------------------------- the wall clock

\* datetime.now() on day n of the clock: the calendar date.  Day 0 is
\* 2024-12-31, day n >= 1 is January n of 2025.
DateOf(n) == IF n = 0 THEN [year |-> 2024, month |-> 12, day |-> 31]
             ELSE [year |-> 2025, month |-> 1, day |-> n]

\* datetime.now().strftime('%Y-%m-%d')
StrftimeYmd(dt) == Pad4(dt.year) \o <<"-">> \o Pad2(dt.month) \o <<"-">> \o Pad2(dt.day)

\* str(datetime.now().year)
YearStr(dt) == IntToStr(dt.year)

\* ---------------------------------------------------------- configuration

TARGET_CURRENCIES ==
    << "AUD", "CAD", "CHF", "CZK", "DKK", "GBP", "HKD", "HUF", "JPY", "KRW",
       "NOK", "NZD", "PLN", "SEK", "SGD", "USD", "ZAR", "TRY", "IDR", "MYR",
       "PHP", "THB", "RON", "MXN", "CNY", "BRL", "INR", "ILS", "BGN" >>

DATA_SOURCE == "European Central Bank via exchangerate-api.com"

Scripts == {"ucd", "uad"}

\* the key of the year mapping in each updater's dataset layout
YearsKey(s) == IF s = "ucd" THEN "rates_by_year" ELSE "data"


\* ------------------------------------------------------------ the rate API

\* A python value whose type the code does not fix (a parsed JSON value, an
\* Optional result) carries its type: a dict, a list or None.
JsonDict(d) == [type |-> "dict", val |-> d]
JsonList(l) == [type |-> "list", val |-> l]
JsonNull == [type |-> "NoneType"]

\* What the HTTP GET of CURRENCY_API_URL can come back with.
RateDicts ==
    { ("USD" :> "1.08") @@ ("GBP" :> "0.86"),
      ("USD" :> "1.10") @@ ("XAU" :> "0.01"),
      ("XAU" :> "0.01") }

Bodies ==
    { JsonDict("rates" :> JsonDict(r)) : r \in RateDicts }
    \cup { JsonDict("rates" :> JsonList(<<>>)),
           JsonDict("rates" :> JsonList(<<"USD">>)),
           JsonDict("rates" :> JsonNull),
           JsonDict("result" :> JsonNull),
           JsonList(<<>>) }

Responses ==
    { [kind |-> "network_error"], [kind |-> "timeout"],
      [kind |-> "http_error"], [kind |-> "bad_json"] }
    \cup { [kind |-> "json", body |-> b] : b \in Bodies }

\* The outcome of evaluating an expression: a value, or a raised exception.
Value(v) == [raised |-> FALSE, val |-> v]
Raised(e) == [raised |-> TRUE, exc |-> e]

Range(l) == { l[i] : i \in DOMAIN l }

\* `currency in rates`
PyIn(currency, rates) ==
    IF rates.type = "dict" THEN Value(currency \in DOMAIN rates.val)
    ELSE IF rates.type = "list" THEN Value(currency \in Range(rates.val))
    ELSE Raised("TypeError")

\* `rates[currency]` with a str subscript
PyGetItem(rates, currency) ==
    IF rates.type = "dict"
    THEN IF currency \in DOMAIN rates.val THEN Value(rates.val[currency])
         ELSE Raised("KeyError")
    ELSE Raised("TypeError")

\* {currency: rates[currency] for currency in TARGET_CURRENCIES
\*  if currency in rates}, from position i of TARGET_CURRENCIES on, the
\* entries of the positions before i being acc
RECURSIVE FilterFrom(_, _, _)
FilterFrom(rates, i, acc) ==
    IF i > Len(TARGET_CURRENCIES) THEN Value(acc)
    ELSE LET currency == TARGET_CURRENCIES[i]
             test == PyIn(currency, rates)
         IN  IF test.raised THEN test
             ELSE IF ~test.val THEN FilterFrom(rates, i + 1, acc)
             ELSE LET item == PyGetItem(rates, currency)
                  IN  IF item.raised THEN item
                      ELSE FilterFrom(rates, i + 1, DictSet(acc, currency, item.val))

\* the body of the try block of fetch_latest_rates_from_api
FetchTry(resp) ==
    IF resp.kind = "network_error" THEN Raised("ConnectionError")
    ELSE IF resp.kind = "timeout" THEN Raised("Timeout")
    ELSE IF resp.kind = "http_error" THEN Raised("HTTPError")
    ELSE IF resp.kind = "bad_json" THEN Raised("JSONDecodeError")
    ELSE LET data == resp.body
         IN  IF data.type # "dict" THEN Raised("AttributeError")
             ELSE FilterFrom(DictGet(data.val, "rates", JsonDict(EmptyDict)), 1, EmptyDict)

\* a variant whose except clause catches only the requests exceptions
FetchCatchesRequestsOnly(resp) ==
    LET r == FetchTry(resp)
    IN  IF r.raised
        THEN IF r.exc \in {"ConnectionError", "Timeout", "HTTPError"}
             THEN Value(JsonNull) ELSE r
        ELSE Value(JsonDict(r.val))

\* fetch_latest_rates_from_api(): the try block, and `except Exception`
\* returning None
fetch_latest_rates_from_api(resp) ==
    LET r == FetchTry(resp)
    IN  IF r.raised THEN Value(JsonNull) ELSE Value(JsonDict(r.val))

\* a variant that tests `latest_rates is not None`
TruthyIsNotNone(latest_rates) == latest_rates.type # "NoneType"

\* `if latest_rates:` on None or a dict
Truthy(latest_rates) ==
    IF latest_rates.type = "NoneType" THEN FALSE
    ELSE DOMAIN latest_rates.val # {}

\* ------------------------------------------------------------- the files

Absent == [kind |-> "absent"]
Partial == [kind |-> "partial"]
Json(v) == [kind |-> "json", val |-> v]

\* `with open(path, 'w') as f: json.dump(value, f)` on a file holding old:
\* the write completes; or open() fails and the file is untouched; or the
\* file is truncated by open() and the dump stops before the end.  The last
\* two raise out of the script.
WriteOutcomes == {"ok", "open_failed", "partial"}

WriteFile(outcome, old, value) ==
    IF outcome = "ok" THEN Json(value)
    ELSE IF outcome = "open_failed" THEN old
    ELSE Partial

\* ---------------------------------------------------- the dataset, updaters

\* load_existing_data() of script s on day-stamp stamp, date string date
NewStructure(s, stamp, date) ==
    IF s = "ucd"
    THEN [ metadata |-> [ base_currency |-> "EUR",
                          currencies |-> TARGET_CURRENCIES,
                          data_source |-> DATA_SOURCE,
                          last_updated |-> stamp,
                          total_records |-> 0,
                          earliest_date |-> date,
                          latest_date |-> date ],
           currencies |-> TARGET_CURRENCIES,
           rates_by_year |-> EmptyDict ]
    ELSE [ metadata |-> [ base_currency |-> "EUR",
                          currencies |-> TARGET_CURRENCIES,
                          data_source |-> DATA_SOURCE,
                          last_updated |-> stamp,
                          total_records |-> 0 ],
           data |-> EmptyDict ]

load_existing_data(s, file, stamp, date) ==
    IF file.kind = "absent" THEN Value(NewStructure(s, stamp, date))
    ELSE IF file.kind = "partial" THEN Raised("JSONDecodeError")
    ELSE Value(file.val)

\* a variant counting the year buckets
TotalRecordsCountsYears(byYear) == Cardinality(DOMAIN byYear)

\* sum(len(year_data) for year_data in byYear.values())
RECURSIVE SumLen(_, _)
SumLen(byYear, years) ==
    IF years = {} THEN 0
    ELSE LET y == CHOOSE y \in years : TRUE
         IN  Cardinality(DOMAIN byYear[y]) + SumLen(byYear, years \ {y})

TotalRecords(byYear) == SumLen(byYear, DOMAIN byYear)

\* [latest_rates.get(currency, None) for currency in TARGET_CURRENCIES]
BuildRow(latest_rates) ==
    [i \in 1..Len(TARGET_CURRENCIES) |->
        DictGet(latest_rates, TARGET_CURRENCIES[i], None)]

\* the day-key of script s for the date string today
DayKey(s, today) == IF s = "ucd" THEN SliceFrom5(today) ELSE today

\* the fields data['metadata'].update() sets
MetadataUpdate(s, stamp, today, total) ==
    IF s = "ucd"
    THEN [last_updated |-> stamp, latest_date |-> today, total_records |-> total]
    ELSE [last_updated |-> stamp, total_records |-> total]

\* a variant that creates the year mapping when the file has none
MergeSetDefault(s, data, today, current_year, latest_rates, stamp) ==
    LET key == YearsKey(s)
        old == DictGet(data, key, EmptyDict)
        bucket == DictGet(old, current_year, EmptyDict)
        byYear == DictSet(old, current_year,
                          DictSet(bucket, DayKey(s, today), BuildRow(latest_rates)))
    IN  Value(DictUpdate(data,
            (key :> byYear) @@
            ("metadata" :> DictUpdate(data.metadata,
                MetadataUpdate(s, stamp, today, TotalRecords(byYear))))))

\* a variant that counts a merge by adding one to the stored counter
MergeIncrementsTotal(s, data, today, current_year, latest_rates, stamp) ==
    LET key == YearsKey(s)
    IN  IF key \notin DOMAIN data THEN Raised("KeyError")
        ELSE
        LET bucket == DictGet(data[key], current_year, EmptyDict)
            byYear == DictSet(data[key], current_year,
                              DictSet(bucket, DayKey(s, today), BuildRow(latest_rates)))
        IN  Value(DictUpdate(data,
                (key :> byYear) @@
                ("metadata" :> DictUpdate(data.metadata,
                    MetadataUpdate(s, stamp, today, data.metadata.total_records + 1)))))

\* The merge of update_currency_data(): the statements between the test of
\* latest_rates and the first write.  data[key] raises KeyError when the
\* loaded file has no year mapping under the script's key.
Merge(s, data, today, current_year, latest_rates, stamp) ==
    LET key == YearsKey(s)
    IN  IF key \notin DOMAIN data THEN Raised("KeyError")
        ELSE
        LET withYear == IF current_year \notin DOMAIN data[key]
                        THEN DictSet(data[key], current_year, EmptyDict)
                        ELSE data[key]
            byYear == DictSet(withYear, current_year,
                              DictSet(withYear[current_year], DayKey(s, today),
                                      BuildRow(latest_rates)))
        IN  Value(DictUpdate(data,
                (key :> byYear) @@
                ("metadata" :> DictUpdate(data.metadata,
                    MetadataUpdate(s, stamp, today, TotalRecords(byYear))))))

\* latest_data of the updaters
LatestData(today, latest_rates, stamp) ==
    [ date |-> today, base_currency |-> "EUR", rates |-> latest_rates,
      last_updated |-> stamp ]

\* ['EUR'] + currencies
PrependBase(currencies) == <<"EUR">> \o currencies

\* metadata of the updaters (file_sizes, the rounded byte sizes of the two
\* files just written, is left out: the files are held as values)
UpdaterMetadata(s, data, today, stamp) ==
    LET common == [ base_currency |-> "EUR",
                    supported_currencies |-> PrependBase(TARGET_CURRENCIES),
                    total_currencies |-> Len(TARGET_CURRENCIES) + 1,
                    data_source |-> DATA_SOURCE,
                    last_updated |-> stamp,
                    total_records |-> data.metadata.total_records,
                    latest_date |-> today ]
    IN  IF s = "ucd"
        THEN DictUpdate(common,
                 "date_range" :> [ start |-> DictGet(data.metadata, "earliest_date", today),
                                   end |-> today ])
        ELSE common

\* ------------------------------------------------------------- bootstrap

\* the loop over enumerate(currencies) building latest_rates, from position
\* i on (i is one more than python's index)
RECURSIVE ZipFrom(_, _, _, _)
ZipFrom(currencies, latest_rates_array, i, acc) ==
    IF i > Len(currencies) THEN acc
    ELSE IF i <= Len(latest_rates_array) /\ latest_rates_array[i] # None
         THEN ZipFrom(currencies, latest_rates_array, i + 1,
                      DictSet(acc, currencies[i], latest_rates_array[i]))
         ELSE ZipFrom(currencies, latest_rates_array, i + 1, acc)

\* steps 3 of bootstrap_currency_pages(): the latest date, its rates by
\* name, and the currency list.  max() of no keys raises ValueError.
BootstrapExtract(data) ==
    IF "data" \notin DOMAIN data THEN Raised("KeyError")
    ELSE IF DOMAIN data.data = {} THEN Raised("ValueError")
    ELSE LET latest_year == PyMax(DOMAIN data.data)
         IN  IF DOMAIN data.data[latest_year] = {} THEN Raised("ValueError")
             ELSE LET latest_date == PyMax(DOMAIN data.data[latest_year])
                      latest_rates_array == data.data[latest_year][latest_date]
                      currencies == data.metadata.currencies
                  IN  Value([ latest_date |-> latest_date,
                              latest_rates |-> ZipFrom(currencies, latest_rates_array,
                                                       1, EmptyDict) ])

\* metadata of bootstrap_currency_pages() (file_sizes left out)
BootstrapMetadata(data, latest_date, stamp) ==
    [ base_currency |-> "EUR",
      supported_currencies |-> PrependBase(data.metadata.currencies),
      total_currencies |-> Len(data.metadata.currencies) + 1,
      data_source |-> DATA_SOURCE,
      last_updated |-> stamp,
      total_records |-> data.metadata.total_records,
      latest_date |-> latest_date ]

\* The files bootstrap can find at source_file: datasets exported before the
\* clock starts, each row aligned with the file's own currency list.
SrcDate == StrftimeYmd([year |-> 2024, month |-> 12, day |-> 30])
SrcYear == YearStr([year |-> 2024])
SrcRates == ("USD" :> "1.07") @@ ("EUR" :> "1.00")
SrcRow(currencies) == [i \in 1..Len(currencies) |-> DictGet(SrcRates, currencies[i], None)]

SrcMetadata(currencies, total) ==
    [ base_currency |-> "EUR", currencies |-> currencies,
      data_source |-> DATA_SOURCE, last_updated |-> -1, total_records |-> total ]

\* the layout of update_and_deploy.py, the updaters' currency list
SrcUad ==
    [ metadata |-> SrcMetadata(TARGET_CURRENCIES, 1),
      data |-> SrcYear :> (SrcDate :> SrcRow(TARGET_CURRENCIES)) ]

\* the same layout with another currency list, the base currency in it
SrcOtherList ==
    [ metadata |-> SrcMetadata(<<"USD", "EUR">>, 1),
      data |-> SrcYear :> (SrcDate :> SrcRow(<<"USD", "EUR">>)) ]

\* the layout of update_currency_data.py, its stored counter overstated
SrcUcdOvercounted ==
    [ metadata |-> SrcMetadata(TARGET_CURRENCIES, 5) @@
                   [earliest_date |-> SrcDate, latest_date |-> SrcDate],
      currencies |-> TARGET_CURRENCIES,
      rates_by_year |-> SrcYear :> (SliceFrom5(SrcDate) :> SrcRow(TARGET_CURRENCIES)) ]

SourceFiles == {SrcUad, SrcOtherList, SrcUcdOvercounted}

\* ------------------------------------------------------------------ state

VARIABLES
    rates_file,      \* docs/currency_rates.json
    latest_file,     \* docs/latest.json
    metadata_file,   \* docs/metadata.json
    now,             \* the wall clock, in days
    pc,              \* where the running script is
    script,          \* the script that runs or ran last
    data,            \* its variable data
    today,           \* its variable today (bootstrap: latest_date)
    current_year,    \* its variable current_year
    latest_rates,    \* its variable latest_rates
    exit_code,       \* the exit code of the script that ran last
    response,        \* the response to the request of this run
    requests,        \* the requests this run has issued
    pre,             \* the three files as they were when this run started
    runs             \* the scripts started so far

vars == << rates_file, latest_file, metadata_file, now, pc, script, data,
           today, current_year, latest_rates, exit_code, response, requests,
           pre, runs >>

files == [rates |-> rates_file, latest |-> latest_file, metadata |-> metadata_file]

NoResponse == [kind |-> "none"]

Init ==
    /\ rates_file = Absent
    /\ latest_file = Absent
    /\ metadata_file = Absent
    /\ now = 0
    /\ pc = "idle"
    /\ script = "none"
    /\ data = EmptyDict
    /\ today = <<>>
    /\ current_year = <<>>
    /\ latest_rates = JsonNull
    /\ exit_code = 0
    /\ response = NoResponse
    /\ requests = 0
    /\ pre = files
    /\ runs = 0

\* a day passes between two runs
Tick ==
    /\ pc = "idle"
    /\ now < MaxDay
    /\ now' = now + 1
    /\ UNCHANGED << rates_file, latest_file, metadata_file, pc, script, data,
                    today, current_year, latest_rates, exit_code, response,
                    requests, pre, runs >>

\* update_currency_data() up to `data = load_existing_data()`
StartRun(s) ==
    /\ pc = "idle"
    /\ runs < MaxRuns
    /\ runs' = runs + 1
    /\ LET r == load_existing_data(s, rates_file, now, StrftimeYmd(DateOf(now)))
       IN  /\ pc' = IF r.raised THEN "done" ELSE "read_clock"
           /\ exit_code' = IF r.raised THEN 1 ELSE 0
           /\ data' = IF r.raised THEN EmptyDict ELSE r.val
    /\ script' = s
    /\ today' = <<>>
    /\ current_year' = <<>>
    /\ latest_rates' = JsonNull
    /\ response' = NoResponse
    /\ requests' = 0
    /\ pre' = files
    /\ UNCHANGED << rates_file, latest_file, metadata_file, now >>

\* today and current_year, read by two calls of datetime.now(): midnight
\* may fall between them
ReadClock ==
    /\ pc = "read_clock"
    /\ \E passed \in {0, 1} :
          /\ now + passed <= MaxDay
          /\ now' = now + passed
          /\ today' = StrftimeYmd(DateOf(now))
          /\ current_year' = YearStr(DateOf(now + passed))
    /\ pc' = "fetch"
    /\ UNCHANGED << rates_file, latest_file, metadata_file, script, data,
                    latest_rates, exit_code, response, requests, pre, runs >>

\* latest_rates = fetch_latest_rates_from_api(); an exception it lets
\* through ends the script
Fetch ==
    /\ pc = "fetch"
    /\ \E resp \in Responses :
          LET r == fetch_latest_rates_from_api(resp)
          IN  /\ response' = resp
              /\ latest_rates' = IF r.raised THEN JsonNull ELSE r.val
              /\ pc' = IF r.raised THEN "done" ELSE "merge"
              /\ exit_code' = IF r.raised THEN 1 ELSE 0
    /\ requests' = requests + 1
    /\ UNCHANGED << rates_file, latest_file, metadata_file, now, script, data,
                    today, current_year, pre, runs >>

\* `if latest_rates:` and the merge in memory, or exit(1)
MergeStep ==
    /\ pc = "merge"
    /\ IF Truthy(latest_rates)
       THEN LET m == Merge(script, data, today, current_year, latest_rates.val, now)
            IN  /\ pc' = IF m.raised THEN "done" ELSE "write_rates"
                /\ exit_code' = IF m.raised THEN 1 ELSE 0
                /\ data' = IF m.raised THEN data ELSE m.val
       ELSE /\ pc' = "done"
            /\ exit_code' = 1
            /\ data' = data
    /\ UNCHANGED << rates_file, latest_file, metadata_file, now, script, today,
                    current_year, latest_rates, response, requests, pre, runs >>

\* the write of currency_rates.json
WriteRates ==
    /\ pc = "write_rates"
    /\ \E outcome \in WriteOutcomes :
          /\ rates_file' = WriteFile(outcome, rates_file, data)
          /\ pc' = IF outcome = "ok" THEN "write_latest" ELSE "done"
          /\ exit_code' = IF outcome = "ok" THEN 0 ELSE 1
    /\ UNCHANGED << latest_file, metadata_file, now, script, data, today,
                    current_year, latest_rates, response, requests, pre, runs >>

\* the write of latest.json, by an updater or by bootstrap
WriteLatest ==
    /\ pc = "write_latest"
    /\ \E outcome \in WriteOutcomes :
          /\ latest_file' = WriteFile(outcome, latest_file,
                                      LatestData(today, latest_rates.val, now))
          /\ pc' = IF outcome = "ok" THEN "write_metadata" ELSE "done"
          /\ exit_code' = IF outcome = "ok" THEN 0 ELSE 1
    /\ UNCHANGED << rates_file, metadata_file, now, script, data, today,
                    current_year, latest_rates, response, requests, pre, runs >>

\* the write of metadata.json, by an updater or by bootstrap; the script
\* then runs to its end
WriteMetadata ==
    /\ pc = "write_metadata"
    /\ \E outcome \in WriteOutcomes :
          /\ metadata_file' = WriteFile(outcome, metadata_file,
                 IF script = "bootstrap" THEN BootstrapMetadata(data, today, now)
                 ELSE UpdaterMetadata(script, data, today, now))
          /\ exit_code' = IF outcome = "ok" THEN 0 ELSE 1
    /\ pc' = "done"
    /\ UNCHANGED << rates_file, latest_file, now, script, data, today,
                    current_year, latest_rates, response, requests, pre, runs >>

\* bootstrap_currency_pages() up to json.load(f): the copy of source_file
\* to docs/currency_rates.json and the load of source_file
BootstrapCopy(src) ==
    /\ pc = "idle"
    /\ runs < MaxRuns
    /\ runs' = runs + 1
    /\ \E outcome \in WriteOutcomes :
          /\ rates_file' = WriteFile(outcome, rates_file, src)
          /\ pc' = IF outcome = "ok" THEN "extract" ELSE "done"
          /\ exit_code' = IF outcome = "ok" THEN 0 ELSE 1
    /\ script' = "bootstrap"
    /\ data' = src
    /\ today' = <<>>
    /\ current_year' = <<>>
    /\ latest_rates' = JsonNull
    /\ response' = NoResponse
    /\ requests' = 0
    /\ pre' = files
    /\ UNCHANGED << latest_file, metadata_file, now >>

\* bootstrap's step 3
BootstrapExtractStep ==
    /\ pc = "extract"
    /\ LET r == BootstrapExtract(data)
       IN  /\ pc' = IF r.raised THEN "done" ELSE "write_latest"
           /\ exit_code' = IF r.raised THEN 1 ELSE 0
           /\ today' = IF r.raised THEN today ELSE r.val.latest_date
           /\ latest_rates' = IF r.raised THEN latest_rates
                              ELSE JsonDict(r.val.latest_rates)
    /\ UNCHANGED << rates_file, latest_file, metadata_file, now, script, data,
                    current_year, response, requests, pre, runs >>

\* the process has ended: its variables are gone, the files stay
Exit ==
    /\ pc = "done"
    /\ pc' = "idle"
    /\ script' = "none"
    /\ data' = EmptyDict
    /\ today' = <<>>
    /\ current_year' = <<>>
    /\ latest_rates' = JsonNull
    /\ exit_code' = 0
    /\ response' = NoResponse
    /\ requests' = 0
    /\ pre' = files
    /\ UNCHANGED << rates_file, latest_file, metadata_file, now, runs >>

Next ==
    \/ Tick
    \/ \E s \in Scripts : StartRun(s)
    \/ ReadClock
    \/ Fetch
    \/ MergeStep
    \/ WriteRates
    \/ WriteLatest
    \/ WriteMetadata
    \/ \E src \in SourceFiles : BootstrapCopy(src)
    \/ BootstrapExtractStep
    \/ Exit

Spec == Init /\ [][Next]_vars

\* ----------------------------------------------------- reading the state

\* an updater is running or has just ended
UpdaterRun == script \in Scripts

\* an updater has run to its end: the three files are written
RunSucceeded == UpdaterRun /\ pc = "done" /\ exit_code = 0

\* the (year, day-key) pairs of a year mapping
PairsOf(byYear) ==
    UNION { { <<y, d>> : d \in DOMAIN byYear[y] } : y \in DOMAIN byYear }

\* the year mappings a dataset holds, by key
YearMaps(ds) == { k \in {"data", "rates_by_year"} : k \in DOMAIN ds }

\* the entries stored in a file: (key of the year mapping, year, day-key)
StoredEntries(file) ==
    IF file.kind # "json" THEN {}
    ELSE UNION { { <<k, e[1], e[2]>> : e \in PairsOf(file.val[k]) } :
                 k \in YearMaps(file.val) }

RowAt(file, e) == file.val[e[1]][e[2]][e[3]]

\* the record counter stored in a file, 0 for no dataset
StoredTotal(file) ==
    IF file.kind = "json" THEN file.val.metadata.total_records ELSE 0

\* the entry the running updater writes for today as the claims name it:
\* the year of the date, and the script's day-key
YearOfDate(date) == SubSeq(date, 1, 4)
MonthDayOfDate(date) == SubSeq(date, 6, 10)
TodayEntry == << YearsKey(script), YearOfDate(today),
                 IF script = "ucd" THEN MonthDayOfDate(today) ELSE today >>

\* the entry the running updater has merged, as the code keys it
MergedEntry == << YearsKey(script), current_year, DayKey(script, today) >>

NoRates == latest_rates.type = "NoneType" \/ DOMAIN latest_rates.val = {}

\* ------------------------------------------------------------------ C1

\* C1: a run of update_currency_data() whose fetch yielded no rates (None,
\* or an empty mapping) leaves the three files as they were when it
\* started and ends with a non-zero exit code.
NoWriteOnFailure ==
    (UpdaterRun /\ pc = "done" /\ requests = 1 /\ NoRates)
        => (files = pre /\ exit_code # 0)

\* a run on an existing dataset whose fetch returned an empty mapping
NoWriteOnFailureWitness ==
    /\ UpdaterRun /\ pc = "done" /\ requests = 1
    /\ latest_rates.type = "dict" /\ DOMAIN latest_rates.val = {}
    /\ pre.rates.kind = "json"
    /\ StoredEntries(pre.rates) # {}

\* ------------------------------------------------------------------ C2

\* C2: after every successful run the persisted metadata.total_records is
\* the number of (year, day-key) pairs of the persisted dataset, whatever
\* counter the loaded file stored; a first run on no file persists 1.
RecordCountCorrect ==
    RunSucceeded =>
        /\ rates_file.kind = "json"
        /\ rates_file.val.metadata.total_records
              = Cardinality(PairsOf(rates_file.val[YearsKey(script)]))
        /\ (pre.rates.kind = "absent"
              => rates_file.val.metadata.total_records = 1)

\* a successful run on a file whose stored counter was wrong
RecordCountWitness ==
    /\ RunSucceeded
    /\ pre.rates.kind = "json"
    /\ pre.rates.val.metadata.total_records
          # Cardinality(PairsOf(pre.rates.val[YearsKey(script)]))

\* ------------------------------------------------------------------ C3

\* two datasets that differ at most in metadata.last_updated
SameButLastUpdated(a, b) ==
    /\ DOMAIN a = DOMAIN b
    /\ \A k \in DOMAIN a \ {"metadata"} : a[k] = b[k]
    /\ DOMAIN a.metadata = DOMAIN b.metadata
    /\ \A k \in DOMAIN a.metadata \ {"last_updated"} : a.metadata[k] = b.metadata[k]

\* C3: merging the same (date, rates) into the merged dataset once more,
\* at any later time, gives the same dataset up to last_updated: the same
\* years and day-keys, the same rows, the same total_records.
IdempotentMerge ==
    (UpdaterRun /\ pc = "write_rates") =>
        \A stamp \in now..MaxDay :
            LET again == Merge(script, data, today, current_year,
                               latest_rates.val, stamp)
            IN  /\ ~again.raised
                /\ SameButLastUpdated(again.val, data)

\* a merge that replaced the row the file already held for today
IdempotentMergeWitness ==
    /\ UpdaterRun /\ pc = "write_rates"
    /\ MergedEntry \in StoredEntries(pre.rates)
    /\ RowAt(pre.rates, MergedEntry) # data[MergedEntry[1]][MergedEntry[2]][MergedEntry[3]]

\* ------------------------------------------------------------------ C4

\* C4: in the dataset persisted by a successful run every row has the
\* length of the dataset's currency list, and the row written by the run
\* holds at position i the fetched rate of the i-th currency of that list,
\* or null.
PositionalAlignment ==
    RunSucceeded =>
        LET ds == rates_file.val
            currencyList == ds.metadata.currencies
        IN  /\ \A e \in StoredEntries(rates_file) :
                   Len(RowAt(rates_file, e)) = Len(currencyList)
            /\ \A i \in 1..Len(currencyList) :
                   RowAt(rates_file, MergedEntry)[i]
                      = DictGet(latest_rates.val, currencyList[i], None)

\* ------------------------------------------------------------------ C5

\* the most recent entry of a year mapping and its full date
LatestYear(byYear) == PyMax(DOMAIN byYear)
LatestDay(byYear) == PyMax(DOMAIN byYear[LatestYear(byYear)])
FullDate(year, dayKey) ==
    IF Len(dayKey) = 5 THEN year \o <<"-">> \o dayKey ELSE dayKey

\* a row's non-null entries, each with the name at its position
NamedEntries(row, currencyList) ==
    { << IF i <= Len(currencyList) THEN currencyList[i] ELSE "(no name)", row[i] >> :
        i \in { j \in 1..Len(row) : row[j] # None } }

DictEntries(d) == { <<k, d[k]>> : k \in DOMAIN d }

\* C5: when latest.json has been written, its date is the full date of the
\* dataset's most recent entry (maximum year-key, then maximum day-key) and
\* its rates are that row's non-null entries under the names at the same
\* positions of the dataset's currency list.
SnapshotCorrect ==
    (pc = "write_metadata") =>
        LET ds == rates_file.val
            byYear == ds[IF script = "ucd" THEN "rates_by_year" ELSE "data"]
            year == LatestYear(byYear)
            day == LatestDay(byYear)
        IN  /\ latest_file.val.date = FullDate(year, day)
            /\ DictEntries(latest_file.val.rates)
                  = NamedEntries(byYear[year][day], ds.metadata.currencies)

\* ------------------------------------------------------------------ C6

\* C6: when metadata.json has been written, its total_records is the
\* total_records of the dataset in currency_rates.json, and its
\* supported_currencies is the dataset's currency list with EUR put in
\* front: one longer than the list, EUR in it exactly once.
MetadataConsistent ==
    (pc = "done" /\ exit_code = 0 /\ script # "none") =>
        LET supported == metadata_file.val.supported_currencies
            currencyList == rates_file.val.metadata.currencies
        IN  /\ metadata_file.val.total_records
                  = rates_file.val.metadata.total_records
            /\ Len(supported) = Len(currencyList) + 1
            /\ supported[1] = "EUR"
            /\ Cardinality({ i \in 1..Len(supported) : supported[i] = "EUR" }) = 1

\* ------------------------------------------------------------------ C7

\* latest.json and metadata.json describe the dataset in currency_rates.json
DescribeDataset ==
    /\ rates_file.kind = "json"
    /\ latest_file.kind = "json"
    /\ metadata_file.kind = "json"
    /\ metadata_file.val.total_records = rates_file.val.metadata.total_records
    /\ latest_file.val.date = metadata_file.val.latest_date

\* C7: at every point of a run of update_currency_data(), a failed write
\* included, currency_rates.json is the complete previous dataset or the
\* complete new one, and once it is the new one latest.json and
\* metadata.json describe it.
AtomicPersistence ==
    UpdaterRun =>
        /\ \/ rates_file = pre.rates
           \/ rates_file = Json(data)
        /\ rates_file # pre.rates
              => /\ DescribeDataset
                 /\ latest_file.val.date = today

\* ------------------------------------------------------------------ C8

TargetSet == Range(TARGET_CURRENCIES)

\* the response is a JSON object whose rates field is a mapping
WellFormed(resp) ==
    /\ resp.kind = "json"
    /\ resp.body.type = "dict"
    /\ "rates" \in DOMAIN resp.body.val
    /\ resp.body.val.rates.type = "dict"

\* result maps exactly the target currencies the response quotes, each to
\* the response's value
ExactIntersection(resp, result) ==
    LET rates == resp.body.val.rates.val
    IN  /\ result.type = "dict"
        /\ DOMAIN result.val = TargetSet \cap DOMAIN rates
        /\ \A c \in DOMAIN result.val : result.val[c] = rates[c]

\* C8 as stated: the fetch issues one request and hands update_currency_data()
\* the exact intersection on success and None on any error or malformed
\* response; no exception ends the script there.
FetcherContract ==
    [][ pc = "fetch" =>
          /\ pc' = "merge"
          /\ requests' = 1
          /\ IF WellFormed(response')
             THEN ExactIntersection(response', latest_rates')
             ELSE latest_rates'.type = "NoneType" ]_vars

\* C8: the fetch issues one request and hands update_currency_data() the
\* exact intersection on success, and None or an empty mapping on any
\* error or malformed response; no exception ends the script there.
FetcherContractNoRates ==
    [][ pc = "fetch" =>
          /\ pc' = "merge"
          /\ requests' = 1
          /\ IF WellFormed(response')
             THEN ExactIntersection(response', latest_rates')
             ELSE \/ latest_rates'.type = "NoneType"
                  \/ /\ latest_rates'.type = "dict"
                     /\ DOMAIN latest_rates'.val = {} ]_vars

\* a fetch that dropped a currency outside the target list and kept one
\* inside it
FetcherContractWitness ==
    /\ pc = "merge"
    /\ WellFormed(response)
    /\ DOMAIN latest_rates.val # {}
    /\ DOMAIN response.body.val.rates.val \ TargetSet # {}

\* ------------------------------------------------------------------ C9

\* C9: a successful run for date d changes only the row at (year of d,
\* day-key of d), every other entry of the loaded file staying as it was;
\* and no run, successful or failed, removes a stored entry or lowers
\* total_records.
FrameOfMerge ==
    /\ RunSucceeded =>
          \A e \in (StoredEntries(pre.rates) \cup StoredEntries(rates_file)) \ {TodayEntry} :
              /\ e \in StoredEntries(pre.rates)
              /\ e \in StoredEntries(rates_file)
              /\ RowAt(rates_file, e) = RowAt(pre.rates, e)
    /\ UpdaterRun =>
          /\ StoredEntries(pre.rates) \subseteq StoredEntries(rates_file)
          /\ StoredTotal(pre.rates) <= StoredTotal(rates_file)

\* ------------------------------------------------------------------ C10

\* C10: the persisted dataset never holds day-keys of both schemes (MM-DD
\* and YYYY-MM-DD), and a run of one updater on a file holding the other
\* updater's layout writes none of the three files and ends with a non-zero
\* exit code.
NoMixedKeySchemes ==
    /\ \A e1, e2 \in StoredEntries(rates_file) : Len(e1[3]) = Len(e2[3])
    /\ \A s \in Scripts :
          ( /\ script = s
            /\ pre.rates.kind = "json"
            /\ YearMaps(pre.rates.val) = {"data", "rates_by_year"} \ {YearsKey(s)} )
          => /\ files = pre
             /\ pc = "done" => exit_code # 0

\* update_and_deploy.py has fetched rates and ended on a file that
\* update_currency_data.py wrote
NoMixedKeySchemesWitness ==
    /\ script = "uad" /\ pc = "done"
    /\ ~NoRates
    /\ pre.rates.kind = "json"
    /\ YearMaps(pre.rates.val) = {"rates_by_year"}
    /\ \E e \in StoredEntries(pre.rates) : Len(e[3]) = 5

=============================================================================
